---- MODULE Spec2Model ----
(***************************************************************************)
(* penn_chime/presentation.py: the streamlit presentation layer of CHIME.  *)
(* The module models the Input helper classes, display_sidebar,            *)
(* display_header and display_download_link, together with the host widget *)
(* runtime (the `st` argument) they are called with.                       *)
(*                                                                         *)
(* Python floats are IEEE-754 doubles.  A double is modelled exactly as a  *)
(* 53-bit mantissa m (four base-2^20 limbs, least significant first) and   *)
(* an exponent e, with value m * 2^e; multiplication and division by a     *)
(* small integer constant round to nearest, ties to even, as the hardware  *)
(* does.  All values here are non-negative and far from the overflow and   *)
(* subnormal ranges.                                                       *)
(***************************************************************************)
EXTENDS Integers, Sequences, FiniteSets, TLC

VARIABLES
    pct,        \* SpecPercent: one PercentInput and the host widget behind it
    hdr,        \* SpecHeader: the inputs and the output of display_header
    dl,         \* SpecDownload: the inputs and the output of display_download_link
    dflt,       \* Spec: the default Parameters d passed to display_sidebar
    session,    \* Spec: the host's widget values (what the user has set)
    run,        \* Spec: what the last refresh of display_sidebar did and returned
    edits,      \* Spec: number of user edits so far
    snap        \* Spec: an earlier refresh, remembered for comparison

vars == <<pct, hdr, dl, dflt, session, run, edits, snap>>

(* Python values carry their type: None, bool, int, str, date (a day number) *)
(* and float (see below).                                                   *)
None == [t |-> "None"]
Bool(b) == [t |-> "bool", v |-> b]
PyInt(k) == [t |-> "int", v |-> k]
Str(s) == [t |-> "str", v |-> s]
Date(n) == [t |-> "date", v |-> n]
NoValue == [t |-> "NoValue"]    \* the host holds no user-set value for a widget
Exc == [t |-> "Exc"]            \* a call that raised instead of returning
Idle == [t |-> "Idle"]          \* the part of the state a specification does not use

----------------------------------------------------------------------------
(* IEEE-754 double arithmetic *)

Base == 2^20
BigZero == <<0, 0, 0, 0>>
Two52 == <<0, 0, 2^12, 0>>
Two53 == <<0, 0, 2^13, 0>>

BigMul(a, c) ==
    LET p1 == a[1] * c
        p2 == a[2] * c + (p1 \div Base)
        p3 == a[3] * c + (p2 \div Base)
        p4 == a[4] * c + (p3 \div Base)
    IN  <<p1 % Base, p2 % Base, p3 % Base, p4 % Base>>

BigDivMod(a, c) ==
    LET t4 == a[4]
        t3 == (t4 % c) * Base + a[3]
        t2 == (t3 % c) * Base + a[2]
        t1 == (t2 % c) * Base + a[1]
    IN  [q |-> <<t1 \div c, t2 \div c, t3 \div c, t4 \div c>>, r |-> t1 % c]

BigLt(a, b) ==
    \E i \in 1..4 : a[i] < b[i] /\ \A j \in (i+1)..4 : a[j] = b[j]

BigInc(a) ==
    LET s1 == a[1] + 1
        s2 == a[2] + (s1 \div Base)
        s3 == a[3] + (s2 \div Base)
        s4 == a[4] + (s3 \div Base)
    IN  <<s1 % Base, s2 % Base, s3 % Base, s4 % Base>>

IsMantissa(m) == ~BigLt(m, Two52) /\ BigLt(m, Two53)

Float(s, m, e) == [t |-> "float", s |-> s, m |-> m, e |-> e]

FZero == Float(0, BigZero, 0)

RoundNearestEven(s, q, r, c, e) ==
    LET up == 2 * r > c \/ (2 * r = c /\ q[1] % 2 = 1)
        m == IF up THEN BigInc(q) ELSE q
    IN  IF m = Two53 THEN Float(s, Two52, e + 1) ELSE Float(s, m, e)

\* float(k) for an integer 0 <= k < 2^13
FromInt(k) ==
    IF k = 0 THEN FZero
    ELSE LET j == CHOOSE j \in 0..12 : IsMantissa(BigMul(<<0, 0, k, 0>>, 2^j))
         IN  Float(0, BigMul(<<0, 0, k, 0>>, 2^j), 0 - 40 - j)

\* x / float(c) for an integer 0 < c <= 2^10
FDivInt(x, c) ==
    IF x.m = BigZero THEN FZero
    ELSE LET k == CHOOSE k \in 0..10 : IsMantissa(BigDivMod(BigMul(x.m, 2^k), c).q)
             qr == BigDivMod(BigMul(x.m, 2^k), c)
         IN  RoundNearestEven(x.s, qr.q, qr.r, c, x.e - k)

\* x * float(c) for an integer 0 < c <= 2^10
FMulInt(x, c) ==
    IF x.m = BigZero THEN FZero
    ELSE LET p == BigMul(x.m, c)
             k == CHOOSE k \in 0..10 : IsMantissa(BigDivMod(p, 2^k).q)
             qr == BigDivMod(p, 2^k)
         IN  RoundNearestEven(x.s, qr.q, qr.r, 2^k, x.e + k)

FNeg(x) == IF x.m = BigZero THEN x ELSE [x EXCEPT !.s = 1 - @]

FAbs(x) == [x EXCEPT !.s = 0]

MagLt(x, y) ==
    /\ y.m # BigZero
    /\ \/ x.m = BigZero
       \/ x.e < y.e
       \/ x.e = y.e /\ BigLt(x.m, y.m)

\* x < y
FLt(x, y) ==
    CASE x.s = 0 /\ y.s = 0 -> MagLt(x, y)
      [] x.s = 1 /\ y.s = 1 -> MagLt(y, x)
      [] x.s = 1 /\ y.s = 0 -> TRUE
      [] OTHER -> FALSE

\* x <= y
FLe(x, y) == ~FLt(y, x)

\* constants.EPSILON (1.0e-7), imported at presentation.py:14
EPSILON == Float(0, <<831304, 993707, 6871, 0>>, 0 - 76)

\* the next double away from zero (x # 0)
FSucc(x) ==
    IF BigInc(x.m) = Two53 THEN Float(x.s, Two52, x.e + 1)
    ELSE Float(x.s, BigInc(x.m), x.e)

\* x and y are equal or adjacent doubles
WithinOneUlp(x, y) ==
    \/ x = y
    \/ x.m # BigZero /\ y.m # BigZero /\ (FSucc(x) = y \/ FSucc(y) = x)

----------------------------------------------------------------------------
(* The host widget runtime: the `st` object.  st.session maps a widget's   *)
(* label to the value the user has set (NoValue when untouched); st.log is *)
(* the sequence of calls made to the host during the current run.          *)

Today == Date(0)    \* the day of the run; dates are day numbers relative to it

\* what a widget shows and returns while the user has not touched it
WidgetDefault(method, value, kwargs) ==
    CASE method = "checkbox" -> Bool(value = Bool(TRUE))
      [] method = "date_input" -> IF value = None THEN Today ELSE value
      [] OTHER -> value

\* a widget call returns the user's value if there is one, else the default;
\* a number widget given no number to show raises
HostValue(st, method, label, value, kwargs) ==
    IF method = "number_input" /\ value = None THEN Exc
    ELSE IF label \in DOMAIN st.session /\ st.session[label] # NoValue
         THEN st.session[label]
         ELSE WidgetDefault(method, value, kwargs)

HostWidget(st, method, label, value, kwargs) ==
    LET ret == HostValue(st, method, label, value, kwargs)
    IN  [st |-> [st EXCEPT !.log = Append(@, [method |-> method, label |-> label,
                                              value |-> value, kwargs |-> kwargs,
                                              ret |-> ret])],
         ret |-> ret]

HostMarkdown(st, text, unsafe_allow_html) ==
    [st EXCEPT !.log = Append(@, [method |-> "markdown", text |-> text,
                                  unsafe_allow_html |-> unsafe_allow_html])]

----------------------------------------------------------------------------
(* class Input and its subclasses *)

FLOAT_INPUT_STEP == Str("FLOAT_INPUT_STEP")   \* constants.FLOAT_INPUT_STEP, passed through

Input(cls, st_obj, label, value, kwargs) ==
    [cls |-> cls, st_obj |-> st_obj, label |-> label, value |-> value, kwargs |-> kwargs]

InputCall(st, self) ==
    HostWidget(st, self.st_obj, self.label, self.value, self.kwargs)

NumberInputAs(cls, label, min_value, max_value, value, step, format, key) ==
    Input(cls, "number_input", label, value,
          [min_value |-> min_value, max_value |-> max_value, step |-> step,
           format |-> format, key |-> key])

NumberInput(label, min_value, max_value, value, step, format, key) ==
    NumberInputAs("NumberInput", label, min_value, max_value, value, step, format, key)

DateInput(label, value, key) ==
    Input("DateInput", "date_input", label, value, [key |-> key])

\* a variant that also scales the bounds
PercentInputScaledBounds(label, min_value, max_value, value, step, format, key) ==
    NumberInputAs("PercentInput", label, FMulInt(min_value, 100), FMulInt(max_value, 100),
                  FMulInt(value, 100), step, format, key)

PercentInput(label, min_value, max_value, value, step, format, key) ==
    NumberInputAs("PercentInput", label, min_value, max_value, FMulInt(value, 100),
                  step, format, key)

\* a variant that hands back the widget's percent as it is
PercentInputCallRaw(st, self) == InputCall(st, self)

PercentInputCall(st, self) ==
    LET r == InputCall(st, self)
    IN  [st |-> r.st, ret |-> IF r.ret = Exc THEN Exc ELSE FDivInt(r.ret, 100)]

CheckboxInput(label, value, key) ==
    Input("CheckboxInput", "checkbox", label, value, [key |-> key])

\* input(): the __call__ of the object's class
Call(st, self) ==
    IF self.cls = "PercentInput" THEN PercentInputCall(st, self) ELSE InputCall(st, self)

----------------------------------------------------------------------------
(* SpecPercent: one PercentInput over a fraction f, constructed and called *)

MaxMilli == 40

\* the doubles nearest k/1000, and the ends of [0, 1]
Fractions == {FDivInt(FromInt(k), 1000) : k \in 0..MaxMilli} \cup {FDivInt(FromInt(1), 2), FromInt(1)}

\* percentages a user can type into the widget
TypedPercents == {FromInt(0), FDivInt(FromInt(1), 2), FromInt(7), FromInt(100)}

PctLabel == "Hospitalization %(total infections)"

PctInit ==
    pct = [pc |-> "start", f |-> None, input |-> None,
           st |-> [session |-> [l \in {PctLabel} |-> NoValue], log |-> <<>>], ret |-> None]

PctConstruct ==
    /\ pct.pc = "start"
    /\ \E f \in Fractions :
         pct' = [pct EXCEPT !.pc = "constructed", !.f = f,
                            !.input = PercentInput(PctLabel, FZero, FromInt(100), f,
                                                   FLOAT_INPUT_STEP, Str("%f"), None)]

\* the user may have typed a percentage before the script calls the input
PctCall ==
    /\ pct.pc = "constructed"
    /\ \E w \in TypedPercents \cup {NoValue} :
         LET st0 == [pct.st EXCEPT !.session[PctLabel] = w]
             r == Call(st0, pct.input)
         IN  pct' = [pct EXCEPT !.pc = "called", !.st = r.st, !.ret = r.ret]

IdleSidebar ==
    /\ dflt = Idle /\ session = Idle /\ run = Idle /\ edits = 0 /\ snap = Idle

InitPercent == PctInit /\ hdr = Idle /\ dl = Idle /\ IdleSidebar

NextPercent ==
    \/ PctConstruct /\ UNCHANGED <<hdr, dl, dflt, session, run, edits, snap>>
    \/ PctCall /\ UNCHANGED <<hdr, dl, dflt, session, run, edits, snap>>

SpecPercent == InitPercent /\ [][NextPercent]_vars

\* the widget call the PercentInput made
PctShown == pct.st.log[Len(pct.st.log)]

----------------------------------------------------------------------------
(* str.format: a template is a sequence of literal pieces and replacement   *)
(* fields; a text is a sequence of pieces.  A str argument is inserted as   *)
(* it is; any other argument is inserted as the value under its format      *)
(* specification.                                                           *)

Chunk(s) == [c |-> s]      \* a piece of text: literal characters
Lit(s) == [lit |-> s]
Field(name, fmt) == [field |-> name, fmt |-> fmt]

RECURSIVE Format(_, _)
Format(template, args) ==
    IF template = <<>> THEN <<>>
    ELSE LET item == Head(template)
             piece == IF "lit" \in DOMAIN item THEN <<Chunk(item.lit)>>
                      ELSE IF args[item.field].t = "str" THEN args[item.field].v
                      ELSE <<[value |-> args[item.field], fmt |-> item.fmt]>>
         IN  piece \o Format(Tail(template), args)

----------------------------------------------------------------------------
(* display_header *)

DOCS_URL == <<Chunk("DOCS_URL")>>    \* constants.DOCS_URL, inserted as it is

InfectedWarning == <<Chunk("(Warning: The number of estimated infections is greater than the total regional population. Please verify the values entered in the sidebar.)")>>

HeaderTemplate ==
    <<Lit("The estimated number of currently infected individuals is **"),
      Field("total_infections", ".0f"),
      Lit("**. This is based on current inputs for Hospitalizations (**"),
      Field("current_hosp", ""), Lit("**), Hospitalization rate (**"),
      Field("hosp_rate", ".0%"), Lit("**), Regional population (**"),
      Field("S", ""), Lit("**), and Hospital market share (**"),
      Field("market_share", ".0%"), Lit("**).\n\n"),
      Field("infected_population_warning_str", ""),
      Lit("\n\nAn initial doubling time of **"),
      Field("doubling_time", ""), Lit("** days and a recovery time of **"),
      Field("recovery_days", ""), Lit("** days imply an $R_0$ of **"),
      Field("r_naught", ".2f"), Lit("** and daily growth rate of **"),
      Field("daily_growth", ".2f"), Lit("%**.\n\n**Mitigation**: A **"),
      Field("relative_contact_rate", ".0%"),
      Lit("** reduction in social contact after the onset of the outbreak **"),
      Field("impact_statement", "s"), Lit(" "),
      Field("doubling_time_t", ".1f"), Lit("** days, implying an effective $R_t$ of **$"),
      Field("r_t", ".2f"), Lit("$** and daily growth rate of **"),
      Field("daily_growth_t", ".2f"), Lit("%**.\n")>>

\* float > int, as Python compares them (by value)
FloatGtInt(x, k) == FLt(FromInt(k.v), x)

\* a variant that counts r_t = 1 as halving
ImpactStatementLe(m) ==
    IF FLe(m.r_t, FromInt(1))
    THEN Str(<<Chunk("halves the infections every")>>)
    ELSE Str(<<Chunk("reduces the doubling time to")>>)

ImpactStatement(m) ==
    IF FLt(m.r_t, FromInt(1))
    THEN Str(<<Chunk("halves the infections every")>>)
    ELSE Str(<<Chunk("reduces the doubling time to")>>)

\* a variant that also warns when the two are equal
InfectedPopulationWarningStrGe(m, p) ==
    IF FLe(FromInt(p.population.v), m.infected) THEN Str(InfectedWarning) ELSE Str(<<>>)

InfectedPopulationWarningStr(m, p) ==
    IF FloatGtInt(m.infected, p.population) THEN Str(InfectedWarning) ELSE Str(<<>>)

display_header(st, m, p) ==
    LET infected_population_warning_str == InfectedPopulationWarningStr(m, p)
        st1 == HostMarkdown(st, <<Chunk("penn-medicine-header")>>, TRUE)
        st2 == HostMarkdown(st1, <<Chunk("**Notice**")>>, FALSE)
        st3 == HostMarkdown(st2, Format(<<Lit("This tool was developed by"), Field("docs_url", "")>>,
                                      [docs_url |-> Str(DOCS_URL)]), FALSE)
    IN  HostMarkdown(st3,
            Format(HeaderTemplate,
                   [total_infections |-> m.infected,
                    current_hosp |-> p.current_hospitalized,
                    hosp_rate |-> p.hospitalized.rate,
                    S |-> p.population,
                    market_share |-> p.market_share,
                    recovery_days |-> p.infectious_days,
                    r_naught |-> m.r_naught,
                    doubling_time |-> p.doubling_time,
                    relative_contact_rate |-> p.relative_contact_rate,
                    r_t |-> m.r_t,
                    doubling_time_t |-> FAbs(m.doubling_time_t),
                    impact_statement |-> ImpactStatement(m),
                    daily_growth |-> FMulInt(m.daily_growth_rate, 100),
                    daily_growth_t |-> FMulInt(m.daily_growth_rate_t, 100),
                    infected_population_warning_str |-> infected_population_warning_str]),
            FALSE)

MaxPopulation == 4
MaxInfectedHalves == 10
MaxRtQuarters == 8

\* values of m.r_t: quarters from 0, and the doubles next to 1.0
RtValues ==
    {FDivInt(FromInt(k), 4) : k \in 0..MaxRtQuarters}
        \cup {FSucc(FromInt(1)), Float(0, <<Base - 1, Base - 1, 2^13 - 1, 0>>, 0 - 53)}

HeaderModels ==
    {[infected |-> FDivInt(FromInt(i), 2), r_naught |-> FromInt(2), r_t |-> r,
      doubling_time_t |-> IF FLt(r, FromInt(1)) THEN FNeg(FromInt(5)) ELSE FromInt(5),
      daily_growth_rate |-> FDivInt(FromInt(1), 8),
      daily_growth_rate_t |-> IF FLt(r, FromInt(1)) THEN FNeg(FDivInt(FromInt(1), 8))
                              ELSE FDivInt(FromInt(1), 16)] :
        i \in 0..MaxInfectedHalves, r \in RtValues}

HeaderParameters ==
    {[population |-> PyInt(n), current_hospitalized |-> PyInt(1),
      hospitalized |-> [rate |-> FDivInt(FromInt(25), 1000), days |-> PyInt(7)],
      market_share |-> FDivInt(FromInt(15), 100), infectious_days |-> PyInt(14),
      doubling_time |-> dt, relative_contact_rate |-> FDivInt(FromInt(3), 10)] :
        n \in 1..MaxPopulation, dt \in {None, FromInt(4)}}

EmptyHost == [session |-> <<>>, log |-> <<>>]

HdrInit ==
    \E m \in HeaderModels, p \in HeaderParameters :
        hdr = [pc |-> "start", m |-> m, p |-> p, st |-> EmptyHost]

DisplayHeader ==
    /\ hdr.pc = "start"
    /\ hdr' = [hdr EXCEPT !.pc = "done", !.st = display_header(hdr.st, hdr.m, hdr.p)]

InitHeader == HdrInit /\ pct = Idle /\ dl = Idle /\ IdleSidebar

NextHeader == DisplayHeader /\ UNCHANGED <<pct, dl, dflt, session, run, edits, snap>>

SpecHeader == InitHeader /\ [][NextHeader]_vars

\* whether `pieces` occurs in `text`, piece for piece
Occurs(pieces, text) ==
    \E i \in 0..(Len(text) - Len(pieces)) : SubSeq(text, i + 1, i + Len(pieces)) = pieces

HdrSummary == hdr.st.log[4].text

\* every literal piece of the template and the values of m and p are in the text
HdrComplete(text) ==
    /\ \A i \in 1..Len(HeaderTemplate) :
         "lit" \in DOMAIN HeaderTemplate[i] => Occurs(<<Chunk(HeaderTemplate[i].lit)>>, text)
    /\ Occurs(<<[value |-> hdr.m.infected, fmt |-> ".0f"]>>, text)
    /\ Occurs(<<[value |-> hdr.p.population, fmt |-> ""]>>, text)
    /\ Occurs(<<[value |-> hdr.m.r_t, fmt |-> ".2f"]>>, text)

\* C3: the warning is part of the rendered summary iff m.infected > p.population;
\* otherwise its slot is empty, and the header is rendered in full either way
C3_WarningIff ==
    hdr.pc = "done" =>
        /\ Len(hdr.st.log) = 4
        /\ HdrComplete(HdrSummary)
        /\ Occurs(InfectedWarning, HdrSummary)
             <=> FLt(FromInt(hdr.p.population.v), hdr.m.infected)
        /\ ~Occurs(InfectedWarning, HdrSummary)
             => Occurs(<<Chunk("**).\n\n"), Chunk("\n\nAn initial doubling time of **")>>,
                       HdrSummary)

\* a header rendered with the warning, for m.infected half a person above p.population
C3_Witness ==
    /\ hdr.pc = "done" /\ Occurs(InfectedWarning, HdrSummary)
    /\ hdr.m.infected = FDivInt(FromInt(2 * hdr.p.population.v + 1), 2)

ImpactPhrases == {Chunk("halves the infections every"), Chunk("reduces the doubling time to")}

\* C4: the mitigation sentence says "halves the infections every" when m.r_t < 1
\* and "reduces the doubling time to" otherwise (r_t = 1 included), and exactly one
\* of the two phrases appears
C4_ImpactStatement ==
    hdr.pc = "done" =>
        LET before == Chunk("** reduction in social contact after the onset of the outbreak **")
            halves == Occurs(<<before, Chunk("halves the infections every"), Chunk(" ")>>,
                             HdrSummary)
            reduces == Occurs(<<before, Chunk("reduces the doubling time to"), Chunk(" ")>>,
                              HdrSummary)
        IN  /\ halves <=> FLt(hdr.m.r_t, FromInt(1))
            /\ reduces <=> ~FLt(hdr.m.r_t, FromInt(1))
            /\ Len(SelectSeq(HdrSummary, LAMBDA x : x \in ImpactPhrases)) = 1

\* a header rendered for r_t exactly 1.0
C4_Witness ==
    /\ hdr.pc = "done" /\ hdr.m.r_t = FromInt(1)
    /\ Occurs(<<Chunk("reduces the doubling time to")>>, HdrSummary)

----------------------------------------------------------------------------
(* display_download_link *)

B64Alphabet ==
    <<"A", "B", "C", "D", "E", "F", "G", "H", "I", "J", "K", "L", "M", "N", "O", "P",
      "Q", "R", "S", "T", "U", "V", "W", "X", "Y", "Z", "a", "b", "c", "d", "e", "f",
      "g", "h", "i", "j", "k", "l", "m", "n", "o", "p", "q", "r", "s", "t", "u", "v",
      "w", "x", "y", "z", "0", "1", "2", "3", "4", "5", "6", "7", "8", "9", "+", "/">>

B64(n) == Chunk(B64Alphabet[n + 1])

\* base64 of a sequence of bytes, with = padding
RECURSIVE Base64(_)
Base64(bytes) ==
    CASE Len(bytes) = 0 -> <<>>
      [] Len(bytes) = 1 ->
            <<B64(bytes[1] \div 4), B64((bytes[1] % 4) * 16), Chunk("="), Chunk("=")>>
      [] Len(bytes) = 2 ->
            <<B64(bytes[1] \div 4), B64((bytes[1] % 4) * 16 + bytes[2] \div 16),
              B64((bytes[2] % 16) * 4), Chunk("=")>>
      [] OTHER ->
            <<B64(bytes[1] \div 4), B64((bytes[1] % 4) * 16 + bytes[2] \div 16),
              B64((bytes[2] % 16) * 4 + bytes[3] \div 64), B64(bytes[3] % 64)>>
                \o Base64(SubSeq(bytes, 4, Len(bytes)))

\* utils.dataframe_to_base64: the base64 text of the frame's CSV; a frame is
\* given by the bytes of its CSV
dataframe_to_base64(df) == Str(Base64(df))

DownloadTemplate ==
    <<Lit("\n        <a download=\""), Field("filename", ""),
      Lit("\" href=\"data:file/csv;base64,"), Field("csv", ""),
      Lit("\">Download "), Field("filename", ""), Lit("</a>\n")>>

\* a variant that leaves the HTML escaped
display_download_link_escaped(st, filename, df) ==
    HostMarkdown(st, Format(DownloadTemplate,
                            [csv |-> dataframe_to_base64(df), filename |-> filename]), FALSE)

display_download_link(st, filename, df) ==
    LET csv == dataframe_to_base64(df)
    IN  HostMarkdown(st, Format(DownloadTemplate, [csv |-> csv, filename |-> filename]), TRUE)

MaxNameLen == 2
MaxCsvLen == 4

RECURSIVE SeqsUpTo(_, _)
SeqsUpTo(S, n) ==
    IF n = 0 THEN {<<>>}
    ELSE LET shorter == SeqsUpTo(S, n - 1)
         IN  shorter \cup {Append(q, x) : q \in shorter, x \in S}

\* file names, with characters that HTML and str.format treat specially
FileNames == SeqsUpTo({Chunk("a"), Chunk("\""), Chunk("{csv}"), Chunk("<")}, MaxNameLen)

\* CSV bytes: "a", ",", newline
Frames == SeqsUpTo({97, 44, 10}, MaxCsvLen)

DlInit == dl = [pc |-> "start", filename |-> None, df |-> None, st |-> EmptyHost]

DisplayDownloadLink ==
    /\ dl.pc = "start"
    /\ \E filename \in FileNames, df \in Frames :
         dl' = [dl EXCEPT !.pc = "done", !.filename = Str(filename), !.df = df,
                          !.st = display_download_link(dl.st, Str(filename), df)]

InitDownload == DlInit /\ pct = Idle /\ hdr = Idle /\ IdleSidebar

NextDownload == DisplayDownloadLink /\ UNCHANGED <<pct, hdr, dflt, session, run, edits, snap>>

SpecDownload == InitDownload /\ [][NextDownload]_vars

\* C7: exactly one markdown block is emitted, with raw HTML allowed; it holds the
\* anchor <a download="<filename>" href="data:file/csv;base64,<data>">Download
\* <filename></a> with <data> = dataframe_to_base64(df) and <filename> unchanged
\* in both places
C7_DownloadLink ==
    dl.pc = "done" =>
        LET text == dl.st.log[1].text
            name == dl.filename.v
            data == Base64(dl.df)
            n == Len(name)
            k == Len(data)
        IN  /\ Len(dl.st.log) = 1
            /\ dl.st.log[1].method = "markdown"
            /\ dl.st.log[1].unsafe_allow_html = TRUE
            /\ Len(text) = 4 + 2 * n + k
            /\ text[1] = Chunk("\n        <a download=\"")
            /\ SubSeq(text, 2, 1 + n) = name
            /\ text[2 + n] = Chunk("\" href=\"data:file/csv;base64,")
            /\ SubSeq(text, 3 + n, 2 + n + k) = data
            /\ text[3 + n + k] = Chunk("\">Download ")
            /\ SubSeq(text, 4 + n + k, 3 + 2 * n + k) = name
            /\ text[4 + 2 * n + k] = Chunk("</a>\n")

\* a link for a file name with special characters and a CSV that needs padding
C7_Witness ==
    /\ dl.pc = "done"
    /\ dl.filename = Str(<<Chunk("{csv}"), Chunk("\"")>>)
    /\ dl.df = <<97, 44, 97, 10>>
    /\ Occurs(<<Chunk("Y"), Chunk("S"), Chunk("x"), Chunk("h"),
                Chunk("C"), Chunk("g"), Chunk("="), Chunk("=")>>, dl.st.log[1].text)

----------------------------------------------------------------------------
(* display_sidebar *)

NotGiven == [t |-> "NotGiven"]    \* an argument the call leaves to the host's default

NoKwargs == [k \in {} |-> None]

PopulationLabel == "Regional population"
MarketShareLabel == "Hospital market share (%)"
CurrentHospitalizedLabel == "Currently hospitalized COVID-19 patients"
KnowDateLabel == "I know the date of the first hospitalized case."
DateFirstHospitalizedLabel == "Date of first hospitalized case (enter this date to have CHIME estimate the initial doubling time)"
DoublingTimeLabel == "Doubling time in days (up to today)"
SocialDistancingLabel == "Social distancing measures have been implemented"
MitigationDateLabel == "Date of social distancing measures effect (may be delayed from implementation)"
RelativeContactLabel == "Social distancing (% reduction in social contact going forward)"
HospitalizedPctLabel == "Hospitalization %(total infections)"
IcuPctLabel == "ICU %(total infections)"
VentilatedPctLabel == "Ventilated %(total infections)"
InfectiousDaysLabel == "Infectious days"
HospitalizedDaysLabel == "Average hospital length of stay (in days)"
IcuDaysLabel == "Average days in ICU"
VentilatedDaysLabel == "Average days on ventilator"
NDaysLabel == "Number of days to project"
MaxYAxisSetLabel == "Set the Y-axis on graphs to a static value"
MaxYAxisLabel == "Y-axis static value"
CurrentDateLabel == "Current date (default is today)"

\* lines 174-281: the Input objects, in the order they are constructed
SidebarInputs(d) ==
    <<NumberInput(CurrentHospitalizedLabel, PyInt(0), None, d.current_hospitalized,
                  PyInt(1), Str("%i"), None),
      NumberInput(NDaysLabel, PyInt(30), None, d.n_days, PyInt(1), Str("%i"), None),
      NumberInput(DoublingTimeLabel, FDivInt(FromInt(1), 2), None, d.doubling_time,
                  FDivInt(FromInt(1), 4), Str("%f"), None),
      DateInput(CurrentDateLabel, d.current_date, None),
      DateInput(DateFirstHospitalizedLabel, d.date_first_hospitalized, None),
      DateInput(MitigationDateLabel, d.mitigation_date, None),
      PercentInput(RelativeContactLabel, FZero, FromInt(100), d.relative_contact_rate,
                   FromInt(1), Str("%f"), None),
      PercentInput(HospitalizedPctLabel, FZero, FromInt(100), d.hospitalized.rate,
                   FLOAT_INPUT_STEP, Str("%f"), None),
      PercentInput(IcuPctLabel, FZero, FromInt(100), d.icu.rate,
                   FDivInt(FromInt(5), 100), Str("%f"), None),
      PercentInput(VentilatedPctLabel, FZero, FromInt(100), d.ventilated.rate,
                   FLOAT_INPUT_STEP, Str("%f"), None),
      NumberInput(HospitalizedDaysLabel, PyInt(0), None, d.hospitalized.days,
                  PyInt(1), Str("%i"), None),
      NumberInput(IcuDaysLabel, PyInt(0), None, d.icu.days, PyInt(1), Str("%i"), None),
      NumberInput(VentilatedDaysLabel, PyInt(0), None, d.ventilated.days,
                  PyInt(1), Str("%i"), None),
      PercentInput(MarketShareLabel, FDivInt(FromInt(1), 2), FromInt(100), d.market_share,
                   FLOAT_INPUT_STEP, Str("%f"), None),
      NumberInput(PopulationLabel, PyInt(1), None, d.population, PyInt(1), Str("%i"), None),
      NumberInput(InfectiousDaysLabel, PyInt(0), None, d.infectious_days,
                  PyInt(1), Str("%i"), None),
      CheckboxInput(MaxYAxisSetLabel, None, None),
      NumberInput(MaxYAxisLabel, None, None, PyInt(500), PyInt(25), Str("%i"), None)>>

\* the constructed Input object with the given label
InputOf(inputs, label) ==
    inputs[CHOOSE i \in 1..Len(inputs) : inputs[i].label = label]

\* Python truthiness of a widget's return value
Truthy(v) == v = Bool(TRUE)

(* The statements of the function body, in the order of the source:          *)
(*   Markdown(text)                st.sidebar.markdown(text)                  *)
(*   Assign(var, label)            var = <the Input with that label>()        *)
(*   Set(var, value)               var = value                                *)
(*   IfCheckbox(label, value, then, else)                                     *)
(*                                 if st.sidebar.checkbox(label, value=value) *)
(*   IfVar(var, then)              if var: ...                                *)
Markdown(text) == [op |-> "markdown", text |-> text]
Assign(var, label) == [op |-> "assign", var |-> var, label |-> label]
Set(var, value) == [op |-> "set", var |-> var, value |-> value]
IfCheckbox(label, value, then, else) ==
    [op |-> "if_checkbox", label |-> label, value |-> value, then |-> then, else |-> else]
IfVar(var, then) == [op |-> "if_var", var |-> var, then |-> then]

\* a variant that renders in the order of construction
HospitalSectionAsConstructed ==
    <<Markdown(<<Chunk("**CHIME [v1.1.2]"), Chunk("CHANGE_DATE")>>),
      Markdown(<<Chunk("### Hospital Parameters"), Chunk("DOCS_URL")>>),
      Assign("current_hospitalized", CurrentHospitalizedLabel),
      Assign("market_share", MarketShareLabel),
      Assign("population", PopulationLabel)>>

\* lines 284-298
HospitalSection ==
    <<Markdown(<<Chunk("**CHIME [v1.1.2]"), Chunk("CHANGE_DATE")>>),
      Markdown(<<Chunk("### Hospital Parameters"), Chunk("DOCS_URL")>>),
      Assign("population", PopulationLabel),
      Assign("market_share", MarketShareLabel),
      Assign("current_hospitalized", CurrentHospitalizedLabel)>>

\* a variant that keeps the doubling time beside the date
FirstHospitalizedBranchBoth ==
    IfCheckbox(KnowDateLabel, NotGiven,
               <<Assign("date_first_hospitalized", DateFirstHospitalizedLabel),
                 Assign("doubling_time", DoublingTimeLabel)>>,
               <<Assign("doubling_time", DoublingTimeLabel),
                 Set("date_first_hospitalized", None)>>)

\* lines 306-313
FirstHospitalizedBranch ==
    IfCheckbox(KnowDateLabel, NotGiven,
               <<Assign("date_first_hospitalized", DateFirstHospitalizedLabel),
                 Set("doubling_time", None)>>,
               <<Assign("doubling_time", DoublingTimeLabel),
                 Set("date_first_hospitalized", None)>>)

\* a variant whose default is checked at the sentinel itself
SocialDistancingBranchGe(d) ==
    IfCheckbox(SocialDistancingLabel, Bool(FLe(EPSILON, d.relative_contact_rate)),
               <<Assign("mitigation_date", MitigationDateLabel),
                 Assign("relative_contact_rate", RelativeContactLabel)>>,
               <<Set("mitigation_date", None),
                 Set("relative_contact_rate", EPSILON)>>)

\* lines 315-323
SocialDistancingBranch(d) ==
    IfCheckbox(SocialDistancingLabel, Bool(FLt(EPSILON, d.relative_contact_rate)),
               <<Assign("mitigation_date", MitigationDateLabel),
                 Assign("relative_contact_rate", RelativeContactLabel)>>,
               <<Set("mitigation_date", None),
                 Set("relative_contact_rate", EPSILON)>>)

\* lines 300-323
SpreadSection(d) ==
    <<Markdown(<<Chunk("### Spread and Contact Parameters"), Chunk("DOCS_URL")>>),
      FirstHospitalizedBranch,
      SocialDistancingBranch(d)>>

\* lines 325-336
SeveritySection ==
    <<Markdown(<<Chunk("### Severity Parameters"), Chunk("DOCS_URL")>>),
      Assign("hospitalized_rate", HospitalizedPctLabel),
      Assign("icu_rate", IcuPctLabel),
      Assign("ventilated_rate", VentilatedPctLabel),
      Assign("infectious_days", InfectiousDaysLabel),
      Assign("hospitalized_days", HospitalizedDaysLabel),
      Assign("icu_days", IcuDaysLabel),
      Assign("ventilated_days", VentilatedDaysLabel)>>

\* a variant that reads the value whatever the checkbox says
MaxYAxisBranchAlways ==
    <<Assign("max_y_axis_set", MaxYAxisSetLabel),
      Assign("max_y_axis", MaxYAxisLabel)>>

\* lines 344-348
MaxYAxisBranch ==
    <<Assign("max_y_axis_set", MaxYAxisSetLabel),
      Set("max_y_axis", None),
      IfVar("max_y_axis_set", <<Assign("max_y_axis", MaxYAxisLabel)>>)>>

\* lines 338-350
DisplaySection ==
    <<Markdown(<<Chunk("### Display Parameters"), Chunk("DOCS_URL")>>),
      Assign("n_days", NDaysLabel)>>
        \o MaxYAxisBranch
        \o <<Assign("current_date", CurrentDateLabel)>>

\* lines 283-350
SidebarBody(d) == HospitalSection \o SpreadSection(d) \o SeveritySection \o DisplaySection

\* Running the statements.  A frame is the host, the local variables, and
\* whether a call has raised: nothing runs after that.
RECURSIVE Run(_, _, _)
Exec(frame, stmt, inputs) ==
    CASE frame.raised -> frame
      [] stmt.op = "markdown" ->
            [frame EXCEPT !.st = HostMarkdown(@, stmt.text, FALSE)]
      [] stmt.op = "assign" ->
            LET r == Call(frame.st, InputOf(inputs, stmt.label))
            IN  [st |-> r.st, vars |-> (stmt.var :> r.ret) @@ frame.vars,
                 raised |-> r.ret = Exc]
      [] stmt.op = "set" ->
            [frame EXCEPT !.vars = (stmt.var :> stmt.value) @@ @]
      [] stmt.op = "if_checkbox" ->
            LET r == HostWidget(frame.st, "checkbox", stmt.label, stmt.value, NoKwargs)
            IN  Run([frame EXCEPT !.st = r.st],
                    IF Truthy(r.ret) THEN stmt.then ELSE stmt.else, inputs)
      [] stmt.op = "if_var" ->
            IF Truthy(frame.vars[stmt.var]) THEN Run(frame, stmt.then, inputs) ELSE frame

Run(frame, stmts, inputs) ==
    IF stmts = <<>> THEN frame
    ELSE Run(Exec(frame, Head(stmts), inputs), Tail(stmts), inputs)

Disposition(rate, days) == [rate |-> rate, days |-> days]

\* a variant that stores the population back into d
ReturnParametersStoring(d, v) ==
    [d |-> [d EXCEPT !.population = v.population],
     params |-> [current_hospitalized |-> v.current_hospitalized,
                 hospitalized |-> Disposition(v.hospitalized_rate, v.hospitalized_days),
                 icu |-> Disposition(v.icu_rate, v.icu_days),
                 relative_contact_rate |-> v.relative_contact_rate,
                 mitigation_date |-> v.mitigation_date,
                 ventilated |-> Disposition(v.ventilated_rate, v.ventilated_days),
                 current_date |-> v.current_date,
                 date_first_hospitalized |-> v.date_first_hospitalized,
                 doubling_time |-> v.doubling_time,
                 infectious_days |-> v.infectious_days,
                 market_share |-> v.market_share,
                 max_y_axis |-> v.max_y_axis,
                 n_days |-> v.n_days,
                 population |-> v.population]]

\* lines 352-367: a new Parameters object is returned; d is left as it was
ReturnParameters(d, v) ==
    [d |-> d,
     params |-> [current_hospitalized |-> v.current_hospitalized,
                 hospitalized |-> Disposition(v.hospitalized_rate, v.hospitalized_days),
                 icu |-> Disposition(v.icu_rate, v.icu_days),
                 relative_contact_rate |-> v.relative_contact_rate,
                 mitigation_date |-> v.mitigation_date,
                 ventilated |-> Disposition(v.ventilated_rate, v.ventilated_days),
                 current_date |-> v.current_date,
                 date_first_hospitalized |-> v.date_first_hospitalized,
                 doubling_time |-> v.doubling_time,
                 infectious_days |-> v.infectious_days,
                 market_share |-> v.market_share,
                 max_y_axis |-> v.max_y_axis,
                 n_days |-> v.n_days,
                 population |-> v.population]]

IsWidgetCall(entry) == entry.method # "markdown"

\* lines 352-367 and the outcome of one call: the host afterwards, the Input
\* objects constructed, d afterwards, and either the returned Parameters or the
\* fact that a call raised
SidebarOutcome(d, inputs, frame, ret) ==
    IF frame.raised
    THEN [raised |-> TRUE, st |-> frame.st, inputs |-> inputs, d |-> d, params |-> None]
    ELSE [raised |-> FALSE, st |-> frame.st, inputs |-> inputs, d |-> ret.d,
          params |-> ret.params]

SidebarFrame(st, d, inputs) ==
    Run([st |-> st, vars |-> NoKwargs, raised |-> FALSE], SidebarBody(d), inputs)

SidebarResult(d, inputs, frame) ==
    SidebarOutcome(d, inputs, frame, ReturnParameters(d, frame.vars))

SidebarWith(st, d, inputs) == SidebarResult(d, inputs, SidebarFrame(st, d, inputs))

display_sidebar(st, d) == SidebarWith(st, d, SidebarInputs(d))

----------------------------------------------------------------------------
(* Spec: the page.  The host runs display_sidebar when the page is loaded   *)
(* and again after every change the user makes to a widget on the page.     *)

MaxEdits == 2

BaseDefaults ==
    [population |-> PyInt(3600), market_share |-> FDivInt(FromInt(15), 100),
     current_hospitalized |-> PyInt(69), doubling_time |-> FromInt(4),
     date_first_hospitalized |-> None,
     relative_contact_rate |-> FDivInt(FromInt(3), 10), mitigation_date |-> Today,
     hospitalized |-> Disposition(FDivInt(FromInt(25), 1000), PyInt(7)),
     icu |-> Disposition(FDivInt(FromInt(7), 1000), PyInt(9)),
     ventilated |-> Disposition(FDivInt(FromInt(5), 1000), PyInt(10)),
     infectious_days |-> PyInt(14), n_days |-> PyInt(100), max_y_axis |-> None,
     current_date |-> Today]

\* the default Parameters a caller may pass: every rate within its widget's range
Defaults ==
    {BaseDefaults,
     [BaseDefaults EXCEPT !.doubling_time = None, !.date_first_hospitalized = Date(0 - 20),
                          !.relative_contact_rate = FZero, !.mitigation_date = None,
                          !.market_share = FromInt(1)],
     [BaseDefaults EXCEPT !.date_first_hospitalized = Date(0 - 20),
                          !.relative_contact_rate = EPSILON,
                          !.market_share = FDivInt(FromInt(5), 1000)]}

WidgetLabels ==
    {PopulationLabel, MarketShareLabel, CurrentHospitalizedLabel, KnowDateLabel,
     DateFirstHospitalizedLabel, DoublingTimeLabel, SocialDistancingLabel,
     MitigationDateLabel, RelativeContactLabel, HospitalizedPctLabel, IcuPctLabel,
     VentilatedPctLabel, InfectiousDaysLabel, HospitalizedDaysLabel, IcuDaysLabel,
     VentilatedDaysLabel, NDaysLabel, MaxYAxisSetLabel, MaxYAxisLabel, CurrentDateLabel}

NoRun == [t |-> "NoRun"]
NoSnap == [t |-> "NoSnap"]

\* v is within the min_value and max_value the widget was given
WithinBounds(v, kwargs) ==
    /\ kwargs.min_value = None
       \/ IF v.t = "int" THEN kwargs.min_value.v <= v.v ELSE FLe(kwargs.min_value, v)
    /\ kwargs.max_value = None
       \/ IF v.t = "int" THEN v.v <= kwargs.max_value.v ELSE FLe(v, kwargs.max_value)

\* what the user can set a widget on the page to: the host keeps a number
\* within the widget's bounds and of the type of its default
UserValues(entry) ==
    CASE entry.method = "checkbox" -> {Bool(TRUE), Bool(FALSE)}
      [] entry.method = "date_input" -> {Date(0 - 7), Today}
      [] OTHER ->
            {v \in IF entry.value.t = "int"
                   THEN {PyInt(0), PyInt(1), PyInt(30)}
                   ELSE {FZero, FDivInt(FromInt(1), 2), FromInt(100), FromInt(250)} :
                WithinBounds(v, entry.kwargs)}

\* the widget values the host reported during a run, in the order of the calls
Reported(log) ==
    LET calls == SelectSeq(log, IsWidgetCall)
    IN  [i \in 1..Len(calls) |-> [label |-> calls[i].label, ret |-> calls[i].ret]]

Init ==
    /\ pct = Idle /\ hdr = Idle /\ dl = Idle
    /\ dflt \in Defaults
    /\ session = [l \in WidgetLabels |-> NoValue]
    /\ run = NoRun
    /\ edits = 0
    /\ snap = NoSnap

\* the outcome r of a run is kept; with `latch` it may also be remembered for
\* comparison with later runs
Record(sess, n, r, latch) ==
    /\ session' = sess
    /\ edits' = n
    /\ run' = [d_in |-> dflt, d |-> r.d, raised |-> r.raised, params |-> r.params,
               log |-> r.st.log, inputs |-> r.inputs]
    /\ dflt' = r.d
    /\ snap' \in IF latch
                 THEN {snap, [d_in |-> dflt, reported |-> Reported(r.st.log),
                              raised |-> r.raised, params |-> r.params, edits |-> n]}
                 ELSE {snap}

\* one run of the script over the host's widget values
Refresh(sess, n, latch) ==
    Record(sess, n, display_sidebar([session |-> sess, log |-> <<>>], dflt), latch)

\* the page is loaded (or loaded again): no widget holds a user value
Load(latch) ==
    /\ Refresh([l \in WidgetLabels |-> NoValue], edits, latch)
    /\ UNCHANGED <<pct, hdr, dl>>

\* the user changes a widget that is on the page; the script runs again
Edit(max, latch) ==
    /\ run # NoRun
    /\ edits < max
    /\ \E i \in 1..Len(run.log) :
         /\ IsWidgetCall(run.log[i])
         /\ run.log[i].ret # Exc
         /\ \E v \in UserValues(run.log[i]) \ {run.log[i].ret} :
              Refresh([session EXCEPT ![run.log[i].label] = v], edits + 1, latch)
    /\ UNCHANGED <<pct, hdr, dl>>

\* the script runs again with nothing changed
Rerun(latch) ==
    /\ run # NoRun
    /\ Refresh(session, edits, latch)
    /\ UNCHANGED <<pct, hdr, dl>>

Next == Load(FALSE) \/ Edit(MaxEdits, FALSE) \/ Rerun(FALSE)

Spec == Init /\ [][Next]_vars

\* the same page, with one earlier run remembered
MaxRetainEdits == 1

NextRetain == Load(TRUE) \/ Edit(MaxRetainEdits, TRUE) \/ Rerun(TRUE)

SpecRetain == Init /\ [][NextRetain]_vars

----------------------------------------------------------------------------
(* Properties of display_sidebar *)

\* the last run returned a Parameters
Returned == run # NoRun /\ ~run.raised

Rendered(label) == \E i \in 1..Len(run.log) : IsWidgetCall(run.log[i]) /\ run.log[i].label = label

\* the host call made for a widget in the last run
CallOf(label) ==
    run.log[CHOOSE i \in 1..Len(run.log) : IsWidgetCall(run.log[i]) /\ run.log[i].label = label]

Checked(label) == CallOf(label).ret = Bool(TRUE)

\* C1: in the returned Parameters exactly one of doubling_time and
\* date_first_hospitalized is non-null: the date when the "I know the date"
\* checkbox is checked, the doubling time when it is not
C1_ExactlyOne ==
    Returned =>
        /\ (run.params.doubling_time = None) # (run.params.date_first_hospitalized = None)
        /\ Checked(KnowDateLabel) =>
              /\ run.params.date_first_hospitalized # None
              /\ run.params.date_first_hospitalized = CallOf(DateFirstHospitalizedLabel).ret
              /\ run.params.doubling_time = None
        /\ ~Checked(KnowDateLabel) =>
              /\ run.params.doubling_time # None
              /\ run.params.doubling_time = CallOf(DoublingTimeLabel).ret
              /\ run.params.date_first_hospitalized = None

\* the box is checked although d holds no date and does hold a doubling time
C1_Witness ==
    /\ Returned /\ Checked(KnowDateLabel)
    /\ run.d_in.date_first_hospitalized = None /\ run.d_in.doubling_time # None
    /\ run.params.date_first_hospitalized = Today /\ run.params.doubling_time = None

\* C5: with the social-distancing checkbox checked, mitigation_date and
\* relative_contact_rate come from their widgets (the percent divided by 100);
\* unchecked, they are None and EPSILON whatever d holds; the checkbox's default
\* is checked exactly when d.relative_contact_rate > EPSILON
C5_SocialDistancing ==
    Returned =>
        /\ CallOf(SocialDistancingLabel).value = Bool(FLt(EPSILON, run.d_in.relative_contact_rate))
        /\ session[SocialDistancingLabel] = NoValue =>
              (Checked(SocialDistancingLabel) <=> FLt(EPSILON, run.d_in.relative_contact_rate))
        /\ Checked(SocialDistancingLabel) =>
              /\ Rendered(MitigationDateLabel) /\ Rendered(RelativeContactLabel)
              /\ run.params.mitigation_date = CallOf(MitigationDateLabel).ret
              /\ run.params.relative_contact_rate
                    = FDivInt(CallOf(RelativeContactLabel).ret, 100)
        /\ ~Checked(SocialDistancingLabel) =>
              /\ run.params.mitigation_date = None
              /\ run.params.relative_contact_rate = EPSILON

\* the user has unchecked the box over defaults that hold a date and a rate of 0.3
C5_Witness ==
    /\ Returned /\ ~Checked(SocialDistancingLabel)
    /\ run.d_in.mitigation_date = Today
    /\ run.d_in.relative_contact_rate = FDivInt(FromInt(3), 10)
    /\ run.params.mitigation_date = None /\ run.params.relative_contact_rate = EPSILON

PercentLabels ==
    {MarketShareLabel, RelativeContactLabel, HospitalizedPctLabel, IcuPctLabel,
     VentilatedPctLabel}

\* the field of d a percent widget shows
DefaultRate(d, label) ==
    CASE label = MarketShareLabel -> d.market_share
      [] label = RelativeContactLabel -> d.relative_contact_rate
      [] label = HospitalizedPctLabel -> d.hospitalized.rate
      [] label = IcuPctLabel -> d.icu.rate
      [] label = VentilatedPctLabel -> d.ventilated.rate

UnitInterval(x) == FLe(FZero, x) /\ FLe(x, FromInt(1))

\* C8: every numeric field of the returned Parameters is its widget's value, or
\* that value / 100 for a percent input; a percent widget is given min_value and
\* max_value in percent as written and 100 * the default; so with the host keeping
\* values within bounds, market_share is in [0.005, 1], the three rates in [0, 1],
\* and relative_contact_rate in [0, 1] or EPSILON
C8_NoValidation ==
    Returned =>
        /\ run.params.population = CallOf(PopulationLabel).ret
        /\ run.params.current_hospitalized = CallOf(CurrentHospitalizedLabel).ret
        /\ run.params.infectious_days = CallOf(InfectiousDaysLabel).ret
        /\ run.params.hospitalized.days = CallOf(HospitalizedDaysLabel).ret
        /\ run.params.icu.days = CallOf(IcuDaysLabel).ret
        /\ run.params.ventilated.days = CallOf(VentilatedDaysLabel).ret
        /\ run.params.n_days = CallOf(NDaysLabel).ret
        /\ Rendered(DoublingTimeLabel) =>
              run.params.doubling_time = CallOf(DoublingTimeLabel).ret
        /\ Rendered(MaxYAxisLabel) => run.params.max_y_axis = CallOf(MaxYAxisLabel).ret
        /\ run.params.market_share = FDivInt(CallOf(MarketShareLabel).ret, 100)
        /\ run.params.hospitalized.rate = FDivInt(CallOf(HospitalizedPctLabel).ret, 100)
        /\ run.params.icu.rate = FDivInt(CallOf(IcuPctLabel).ret, 100)
        /\ run.params.ventilated.rate = FDivInt(CallOf(VentilatedPctLabel).ret, 100)
        /\ Rendered(RelativeContactLabel) =>
              run.params.relative_contact_rate = FDivInt(CallOf(RelativeContactLabel).ret, 100)
        /\ \A label \in PercentLabels :
              Rendered(label) =>
                 /\ CallOf(label).value = FMulInt(DefaultRate(run.d_in, label), 100)
                 /\ CallOf(label).kwargs.max_value = FromInt(100)
                 /\ CallOf(label).kwargs.min_value
                       = IF label = MarketShareLabel THEN FDivInt(FromInt(1), 2) ELSE FZero
        /\ FLe(FDivInt(FromInt(5), 1000), run.params.market_share)
        /\ FLe(run.params.market_share, FromInt(1))
        /\ UnitInterval(run.params.hospitalized.rate)
        /\ UnitInterval(run.params.icu.rate)
        /\ UnitInterval(run.params.ventilated.rate)
        /\ UnitInterval(run.params.relative_contact_rate)
              \/ run.params.relative_contact_rate = EPSILON

\* the user has set the market share to its minimum and a rate to its maximum
C8_Witness ==
    /\ Returned
    /\ session[MarketShareLabel] = FDivInt(FromInt(1), 2)
    /\ run.params.market_share = FDivInt(FromInt(5), 1000)
    /\ session[IcuPctLabel] = FromInt(100)
    /\ run.params.icu.rate = FromInt(1)

\* the labels of the widgets rendered in the last run, in order
RenderOrder == [i \in 1..Len(Reported(run.log)) |-> Reported(run.log)[i].label]

\* the labels of the Input objects, in the order they were constructed
ConstructionOrder == [i \in 1..Len(run.inputs) |-> run.inputs[i].label]

\* C9: the widgets are rendered in the fixed order of the sidebar, whatever the
\* order the Input objects were constructed in; each at most once; the widgets
\* of a branch not taken are constructed and not rendered
C9_RenderOrder ==
    /\ Returned =>
        /\ RenderOrder =
             <<PopulationLabel, MarketShareLabel, CurrentHospitalizedLabel, KnowDateLabel>>
             \o (IF Checked(KnowDateLabel) THEN <<DateFirstHospitalizedLabel>>
                 ELSE <<DoublingTimeLabel>>)
             \o <<SocialDistancingLabel>>
             \o (IF Checked(SocialDistancingLabel)
                 THEN <<MitigationDateLabel, RelativeContactLabel>> ELSE <<>>)
             \o <<HospitalizedPctLabel, IcuPctLabel, VentilatedPctLabel, InfectiousDaysLabel,
                  HospitalizedDaysLabel, IcuDaysLabel, VentilatedDaysLabel, NDaysLabel,
                  MaxYAxisSetLabel>>
             \o (IF Checked(MaxYAxisSetLabel) THEN <<MaxYAxisLabel>> ELSE <<>>)
             \o <<CurrentDateLabel>>
        /\ ConstructionOrder =
             <<CurrentHospitalizedLabel, NDaysLabel, DoublingTimeLabel, CurrentDateLabel,
               DateFirstHospitalizedLabel, MitigationDateLabel, RelativeContactLabel,
               HospitalizedPctLabel, IcuPctLabel, VentilatedPctLabel, HospitalizedDaysLabel,
               IcuDaysLabel, VentilatedDaysLabel, MarketShareLabel, PopulationLabel,
               InfectiousDaysLabel, MaxYAxisSetLabel, MaxYAxisLabel>>
    /\ (run # NoRun /\ run.raised) =>
          RenderOrder = <<PopulationLabel, MarketShareLabel, CurrentHospitalizedLabel,
                          KnowDateLabel, DoublingTimeLabel>>
    /\ run # NoRun =>
          \A i, j \in 1..Len(RenderOrder) : RenderOrder[i] = RenderOrder[j] => i = j

\* a run with the date known, social distancing on and the Y axis fixed
C9_Witness ==
    /\ Returned /\ Checked(KnowDateLabel) /\ Checked(SocialDistancingLabel)
    /\ Checked(MaxYAxisSetLabel)
    /\ Len(RenderOrder) = 19 /\ ~Rendered(DoublingTimeLabel)
    /\ \E i \in 1..Len(run.inputs) : run.inputs[i].label = DoublingTimeLabel

\* C10: max_y_axis is None iff the Y-axis checkbox is unchecked; checked, it is
\* the value of the "Y-axis static value" widget, whose default is 500; unchecked,
\* that widget is not rendered
C10_MaxYAxis ==
    Returned =>
        /\ run.params.max_y_axis = None <=> ~Checked(MaxYAxisSetLabel)
        /\ Checked(MaxYAxisSetLabel) =>
              /\ Rendered(MaxYAxisLabel)
              /\ run.params.max_y_axis = CallOf(MaxYAxisLabel).ret
              /\ CallOf(MaxYAxisLabel).value = PyInt(500)
              /\ session[MaxYAxisLabel] = NoValue => run.params.max_y_axis = PyInt(500)
        /\ ~Checked(MaxYAxisSetLabel) => ~Rendered(MaxYAxisLabel)

\* the box is checked and the user has set the value
C10_Witness ==
    /\ Returned /\ Checked(MaxYAxisSetLabel)
    /\ session[MaxYAxisLabel] = PyInt(30) /\ run.params.max_y_axis = PyInt(30)

====
